---- MODULE Spec2Model ----
(***************************************************************************)
(* Model of the KRunner plugin of dokrunner (src/src/krunner.rs): the      *)
(* query dispatcher (KRunnerPlugin::query), the per-docset fan-out         *)
(* (search_in_doc_sets), the join helper (collect_join_set) and the action *)
(* router (KRunnerPlugin::run).                                            *)
(*                                                                         *)
(* Strings are sequences of one-character strings, so that trimming,       *)
(* splitting and JSON escaping are computed character by character.        *)
(* Tasks of a tokio JoinSet are modelled one record per task, with the     *)
(* JoinSet's completion order as a queue. A backend call is a suspension    *)
(* point: calling and returning are separate steps.                         *)
(***************************************************************************)
EXTENDS Integers, Sequences, FiniteSets, Bags, TLC

\* ------------------------------------------------------------------ bounds

\* Longest whitespace-only raw query that is enumerated.
MaxWsLen == 2

\* ------------------------------------------------------------ characters

\* U+00A0 and U+000B: whitespace for char::is_whitespace (str::trim), not for
\* u8::is_ascii_whitespace (split_ascii_whitespace).
NBSP == "NBSP"
VT == "VT"

AsciiWhitespace == {" ", "\t"}

UnicodeWhitespace == AsciiWhitespace \cup {NBSP, VT}

\* ------------------------------------------------------- string helpers

RECURSIVE TrimStart(_)
TrimStart(s) ==
    IF s # <<>> /\ Head(s) \in UnicodeWhitespace THEN TrimStart(Tail(s)) ELSE s

RECURSIVE TrimEnd(_)
TrimEnd(s) ==
    IF s # <<>> /\ s[Len(s)] \in UnicodeWhitespace
    THEN TrimEnd(SubSeq(s, 1, Len(s) - 1))
    ELSE s

RECURSIVE TrimAsciiStart(_)
TrimAsciiStart(s) ==
    IF s # <<>> /\ Head(s) \in AsciiWhitespace THEN TrimAsciiStart(Tail(s)) ELSE s

RECURSIVE TrimAsciiEnd(_)
TrimAsciiEnd(s) ==
    IF s # <<>> /\ s[Len(s)] \in AsciiWhitespace
    THEN TrimAsciiEnd(SubSeq(s, 1, Len(s) - 1))
    ELSE s

\* str::trim_ascii, which leaves U+00A0 and U+000B in place.
TrimAscii(s) == TrimAsciiEnd(TrimAsciiStart(s))

\* str::trim
Trim(s) == TrimEnd(TrimStart(s))

\* str::split_ascii_whitespace: the non-empty maximal runs of characters
\* that are not ASCII whitespace. cur is the run being read.
RECURSIVE SplitFrom(_, _)
SplitFrom(s, cur) ==
    IF s = <<>>
    THEN IF cur = <<>> THEN <<>> ELSE <<cur>>
    ELSE IF Head(s) \in AsciiWhitespace
         THEN (IF cur = <<>> THEN <<>> ELSE <<cur>>) \o SplitFrom(Tail(s), <<>>)
         ELSE SplitFrom(Tail(s), Append(cur, Head(s)))

SplitAsciiWhitespace(s) == SplitFrom(s, <<>>)

RECURSIVE Flatten(_)
Flatten(ss) == IF ss = <<>> THEN <<>> ELSE Head(ss) \o Flatten(Tail(ss))

\* ------------------------------------------------------- query parsing

\* krunner.rs:82-90. The first two tokens of the trimmed query; found is
\* FALSE on the early return with an empty list.
ParseQuery(rawq) ==
    LET splits == SplitAsciiWhitespace(Trim(rawq))
    IN  IF Len(splits) = 0
        THEN [found |-> FALSE, kw |-> <<>>, query |-> <<>>]
        ELSE IF Len(splits[1]) < 1
             THEN [found |-> FALSE, kw |-> <<>>, query |-> <<>>]
             ELSE [found |-> TRUE,
                   kw    |-> splits[1],
                   query |-> IF Len(splits) >= 2 THEN splits[2] ELSE <<>>]

\* ------------------------------------------------ EntryData and its JSON

\* krunner.rs:61-72, enum EntryData.
EntryDataDocSet(provider, id) ==
    [variant |-> "DocSet", provider |-> provider, id |-> id]

EntryDataEntry(provider, doc_set_id, url) ==
    [variant |-> "Entry", provider |-> provider, doc_set_id |-> doc_set_id,
     url |-> url]

\* No escaping at all: what formatting the string between quotes would do.
NoEscapeChar(c) == <<c>>

\* serde_json's string escaping, for the characters the model's strings use.
JsonEscapeChar(c) ==
    IF c = "\"" THEN <<"\\", "\"">>
    ELSE IF c = "\\" THEN <<"\\", "\\">>
    ELSE IF c = "\t" THEN <<"\\", "t">>
    ELSE <<c>>

RECURSIVE JsonEscape(_)
JsonEscape(s) ==
    IF s = <<>> THEN <<>> ELSE JsonEscapeChar(Head(s)) \o JsonEscape(Tail(s))

JsonString(s) == <<"\"">> \o JsonEscape(s) \o <<"\"">>

\* The field and variant names of the derive(Serialize) output.
NameDocSet == <<"D", "o", "c", "S", "e", "t">>
NameEntry == <<"E", "n", "t", "r", "y">>
NameProvider == <<"p", "r", "o", "v", "i", "d", "e", "r">>
NameId == <<"i", "d">>
NameDocSetId == <<"d", "o", "c", "_", "s", "e", "t", "_", "i", "d">>
NameUrl == <<"u", "r", "l">>

JsonField(name, value) == JsonString(name) \o <<":">> \o JsonString(value)

\* serde_json::to_string(&EntryData): externally tagged, fields in
\* declaration order, no whitespace.
ToJsonString(d) ==
    IF d.variant = "DocSet"
    THEN <<"{">> \o JsonString(NameDocSet) \o <<":", "{">>
         \o JsonField(NameProvider, d.provider) \o <<",">>
         \o JsonField(NameId, d.id) \o <<"}", "}">>
    ELSE <<"{">> \o JsonString(NameEntry) \o <<":", "{">>
         \o JsonField(NameProvider, d.provider) \o <<",">>
         \o JsonField(NameDocSetId, d.doc_set_id) \o <<",">>
         \o JsonField(NameUrl, d.url) \o <<"}", "}">>

ParseFail == [ok |-> FALSE, val |-> <<>>, rest |-> <<>>]

JsonWhitespace == {" ", "\t"}

RECURSIVE SkipWs(_)
SkipWs(s) ==
    IF s # <<>> /\ Head(s) \in JsonWhitespace THEN SkipWs(Tail(s)) ELSE s

\* The rest of s after the character c, which s must start with (after
\* whitespace); ParseFail otherwise.
Expect(s, c) ==
    LET t == SkipWs(s)
    IN  IF t # <<>> /\ Head(t) = c
        THEN [ok |-> TRUE, val |-> <<>>, rest |-> Tail(t)]
        ELSE ParseFail

\* The body of a JSON string after its opening quote: escapes are decoded,
\* an unknown escape, a raw control character or a missing closing quote is
\* an error.
RECURSIVE ReadStr(_, _)
ReadStr(s, acc) ==
    IF s = <<>> THEN ParseFail
    ELSE IF Head(s) = "\"" THEN [ok |-> TRUE, val |-> acc, rest |-> Tail(s)]
    ELSE IF Head(s) = "\\"
         THEN IF Len(s) < 2 THEN ParseFail
              ELSE IF s[2] \in {"\"", "\\"}
                   THEN ReadStr(SubSeq(s, 3, Len(s)), Append(acc, s[2]))
              ELSE IF s[2] = "t"
                   THEN ReadStr(SubSeq(s, 3, Len(s)), Append(acc, "\t"))
              ELSE ParseFail
    ELSE IF Head(s) = "\t" THEN ParseFail
    ELSE ReadStr(Tail(s), Append(acc, Head(s)))

ParseJsonString(s) ==
    LET q == Expect(s, "\"")
    IN  IF q.ok THEN ReadStr(q.rest, <<>>) ELSE ParseFail

\* The "name":"value" pairs of an object whose opening brace is read, up to
\* and including its closing brace. first is TRUE before the first pair.
RECURSIVE ParseFields(_, _, _)
ParseFields(s, acc, first) ==
    LET close == Expect(s, "}")
        sep   == IF first THEN [ok |-> TRUE, val |-> <<>>, rest |-> s]
                 ELSE Expect(s, ",")
        key   == IF sep.ok THEN ParseJsonString(sep.rest) ELSE ParseFail
        colon == IF key.ok THEN Expect(key.rest, ":") ELSE ParseFail
        value == IF colon.ok THEN ParseJsonString(colon.rest) ELSE ParseFail
    IN  IF close.ok THEN [ok |-> TRUE, val |-> acc, rest |-> close.rest]
        ELSE IF value.ok
             THEN ParseFields(value.rest, Append(acc, <<key.val, value.val>>), FALSE)
             ELSE ParseFail

FieldValues(fields, name) ==
    [i \in {j \in 1..Len(fields) : fields[j][1] = name} |-> fields[i][2]]

\* A struct variant built from parsed fields: each required field exactly
\* once (a missing or duplicate field is an error), unknown fields ignored.
HasExactlyOnce(fields, name) ==
    Cardinality(DOMAIN FieldValues(fields, name)) = 1

FieldValue(fields, name) ==
    LET fv == FieldValues(fields, name) IN fv[CHOOSE i \in DOMAIN fv : TRUE]

DeserializeErr == [ok |-> FALSE]

BuildEntryData(variant, fields) ==
    IF variant = NameDocSet
    THEN IF HasExactlyOnce(fields, NameProvider) /\ HasExactlyOnce(fields, NameId)
         THEN [ok |-> TRUE,
               data |-> EntryDataDocSet(FieldValue(fields, NameProvider),
                                        FieldValue(fields, NameId))]
         ELSE DeserializeErr
    ELSE IF variant = NameEntry
    THEN IF /\ HasExactlyOnce(fields, NameProvider)
            /\ HasExactlyOnce(fields, NameDocSetId)
            /\ HasExactlyOnce(fields, NameUrl)
         THEN [ok |-> TRUE,
               data |-> EntryDataEntry(FieldValue(fields, NameProvider),
                                       FieldValue(fields, NameDocSetId),
                                       FieldValue(fields, NameUrl))]
         ELSE DeserializeErr
    ELSE DeserializeErr

\* serde_json::from_str::<EntryData>: one object with the variant name as
\* its only key and the variant's fields as an object of strings; anything
\* else, and trailing characters, is an error.
FromJsonString(s) ==
    LET open1   == Expect(s, "{")
        variant == IF open1.ok THEN ParseJsonString(open1.rest) ELSE ParseFail
        colon   == IF variant.ok THEN Expect(variant.rest, ":") ELSE ParseFail
        open2   == IF colon.ok THEN Expect(colon.rest, "{") ELSE ParseFail
        fields  == IF open2.ok THEN ParseFields(open2.rest, <<>>, TRUE) ELSE ParseFail
        close   == IF fields.ok THEN Expect(fields.rest, "}") ELSE ParseFail
    IN  IF close.ok /\ SkipWs(close.rest) = <<>>
        THEN BuildEntryData(variant.val, fields.val)
        ELSE DeserializeErr


\* ------------------------------------------------------------ data model

\* krunner.rs:38-39
MATCH_TYPE_COMPLETION == 10
MATCH_TYPE_EXACT == 100

\* The most docsets one search_doc_sets call returns.
MaxDocSets == 2

\* dash.rs:110-112, Dash::name; OtherName names a second backend.
DashName == <<"D", "a", "s", "h">>
OtherName == <<"Z", "\"">>

\* The provider lists KRunnerPlugin is constructed with (krunner.rs:17-19):
\* Dash alone, as main.rs:15 does, or Dash and a second backend.
Registries == { <<DashName>>, <<DashName, OtherName>> }

\* provider.rs:27-34, struct DocSet, with the keywords list krunner.rs:118
\* reads. Ids hold the characters JSON escapes.
DocSetPython ==
    [id |-> <<"p", "y">>, name |-> <<"P", "y", " ", "3">>,
     keywords |-> << <<"p", "y">> >>,
     description |-> <<"P">>, icon |-> <<>>]

DocSetQt ==
    [id |-> <<"q", "\"">>, name |-> <<"Q", "t">>,
     keywords |-> << <<"q", "t">>, <<"q">> >>,
     description |-> <<"Q">>, icon |-> <<"i">>]

DocSetPerl ==
    [id |-> <<"p", "l">>, name |-> <<"P", "l">>,
     keywords |-> << <<"p", "l">> >>,
     description |-> <<>>, icon |-> <<>>]

DocSetRust ==
    [id |-> <<"r", "\\">>, name |-> <<"R", "s">>,
     keywords |-> << <<"r", "s">> >>,
     description |-> <<"R">>, icon |-> <<>>]

\* The docsets each backend holds, by position in the provider list.
DocSetTable == << <<DocSetPython, DocSetQt, DocSetPerl>>, <<DocSetRust>> >>

Min(a, b) == IF a < b THEN a ELSE b

\* The list a successful search_doc_sets of backend p returns.
DocSetsOf(p) == SubSeq(DocSetTable[p], 1, Min(MaxDocSets, Len(DocSetTable[p])))

\* provider.rs:18-25, struct SearchEntry (its locator is the field
\* krunner.rs:207 binds as url).
SearchEntryOf(entry_type, title, id, relevance) ==
    [entry_type |-> entry_type, title |-> title, desc |-> <<>>, id |-> id,
     relevance |-> relevance]

\* The list a successful search of backend p in the docset with this id
\* returns; an unknown id gives the empty list (dash.rs:127-130).
EntriesOf(p, doc_set_id) ==
    IF doc_set_id = DocSetPython.id
    THEN << SearchEntryOf("Class", <<"l">>, <<"l", "#">>, 80),
            SearchEntryOf("Method", <<"a">>, <<"a", "\t", "\"">>, 250) >>
    ELSE IF doc_set_id = DocSetQt.id
    THEN << SearchEntryOf("Guide", <<"g">>, <<"g", "\\", "#">>, 0) >>
    ELSE IF doc_set_id = DocSetPerl.id
    THEN << SearchEntryOf("Enum", <<"e">>, <<"e">>, 50) >>
    ELSE IF doc_set_id = DocSetRust.id
    THEN << SearchEntryOf("Other", <<"o">>, <<"}", "\"">>, 100) >>
    ELSE <<>>

IconClass ==
    <<"c", "l", "a", "s", "s", "-", "o", "r", "-", "p", "a", "c", "k", "a", "g", "e">>
IconFunction ==
    <<"c", "o", "d", "e", "-", "f", "u", "n", "c", "t", "i", "o", "n">>
IconEnum == <<"e", "n", "u", "m">>
IconConstant ==
    <<"c", "o", "d", "e", "-", "v", "a", "r", "i", "a", "b", "l", "e">>

\* krunner.rs:183-193
GetKrunnerIcon(entry_type) ==
    IF entry_type = "Class" THEN IconClass
    ELSE IF entry_type \in {"Method", "Function"} THEN IconFunction
    ELSE IF entry_type = "Enum" THEN IconEnum
    ELSE IF entry_type = "Constant" THEN IconConstant
    ELSE <<>>

\* The literal parts of krunner.rs:128's format string.
TextType == <<"T", "y", "p", "e", " ", "\"">>
TextToSearch ==
    <<" ", "k", "e", "y", "w", "o", "r", "d", "\"", " ", "t", "o", " ", "s", "e", "a", "r", "c", "h", " ">>

\* A completion with the match type of an item.
CompletionEntryAsExact(provider_name, ds, keyword) ==
    [data         |-> ToJsonString(EntryDataDocSet(provider_name, ds.id)),
     display_text |-> TextType \o keyword \o TextToSearch \o ds.name,
     icon_name    |-> ds.icon,
     match_type   |-> MATCH_TYPE_EXACT,
     relevance    |-> [num |-> 1, den |-> 1],
     properties   |-> {}]

\* krunner.rs:123-133: the completion entry of one keyword of one docset.
\* relevance is the fraction num/den.
CompletionEntry(provider_name, ds, keyword) ==
    [data         |-> ToJsonString(EntryDataDocSet(provider_name, ds.id)),
     display_text |-> TextType \o keyword \o TextToSearch \o ds.name,
     icon_name    |-> ds.icon,
     match_type   |-> MATCH_TYPE_COMPLETION,
     relevance    |-> [num |-> 1, den |-> 1],
     properties   |-> {}]

\* One completion per docset, for its first keyword only.
RECURSIVE FirstKeywordEntries(_, _)
FirstKeywordEntries(provider_name, doc_sets) ==
    IF doc_sets = <<>> THEN <<>>
    ELSE LET ds == Head(doc_sets)
         IN  [k \in 1..Min(1, Len(ds.keywords)) |->
                 CompletionEntry(provider_name, ds, ds.keywords[k])]
             \o FirstKeywordEntries(provider_name, Tail(doc_sets))

\* krunner.rs:112-136: flat_map over the docsets, map over the keywords.
RECURSIVE CompletionEntries(_, _)
CompletionEntries(provider_name, doc_sets) ==
    IF doc_sets = <<>> THEN <<>>
    ELSE LET ds == Head(doc_sets)
         IN  [k \in 1..Len(ds.keywords) |->
                 CompletionEntry(provider_name, ds, ds.keywords[k])]
             \o CompletionEntries(provider_name, Tail(doc_sets))

\* The relevance clamped to the 0..100 scale.
ToQueryEntryClamped(provider_name, ds, e) ==
    [data         |-> ToJsonString(EntryDataEntry(provider_name, ds.id, e.id)),
     display_text |-> e.title,
     icon_name    |-> GetKrunnerIcon(e.entry_type),
     match_type   |-> MATCH_TYPE_EXACT,
     relevance    |-> [num |-> Min(e.relevance, 100), den |-> 100],
     properties   |-> {<<"category", ds.name>>, <<"subtext", e.desc>>}]

\* The docset's display name in place of its id in the reference.
ToQueryEntryByName(provider_name, ds, e) ==
    [data         |-> ToJsonString(EntryDataEntry(provider_name, ds.name, e.id)),
     display_text |-> e.title,
     icon_name    |-> GetKrunnerIcon(e.entry_type),
     match_type   |-> MATCH_TYPE_EXACT,
     relevance    |-> [num |-> e.relevance, den |-> 100],
     properties   |-> {<<"category", ds.name>>, <<"subtext", e.desc>>}]

\* krunner.rs:207-218: one SearchEntry of docset ds as a QueryEntry.
ToQueryEntry(provider_name, ds, e) ==
    [data         |-> ToJsonString(EntryDataEntry(provider_name, ds.id, e.id)),
     display_text |-> e.title,
     icon_name    |-> GetKrunnerIcon(e.entry_type),
     match_type   |-> MATCH_TYPE_EXACT,
     relevance    |-> [num |-> e.relevance, den |-> 100],
     properties   |-> {<<"category", ds.name>>, <<"subtext", e.desc>>}]

\* krunner.rs:206-218: the value of one per-docset task whose search
\* returned entries.
MapEntries(provider_name, ds, entries) ==
    [k \in 1..Len(entries) |-> ToQueryEntry(provider_name, ds, entries[k])]


\* ------------------------------------------------------------------ state

VARIABLES
    providers,   \* KRunnerPlugin.providers: the names, in registry order
    sdsResp,     \* per backend: what its search_doc_sets call does
    searchResp,  \* per backend and docset position: what its search call does
    pc,          \* "idle", "querying", "returned", "activated"
    raw,         \* the raw query of the running query
    kw,          \* krunner.rs:92
    term,        \* krunner.rs:93 (the local named query)
    ptask,       \* the per-backend tasks of krunner.rs:96-147
    dtask,       \* per backend, the per-docset tasks of krunner.rs:201-220
    pq,          \* completed, not yet joined per-backend tasks, oldest first
    dq,          \* per backend: completed, not yet joined per-docset tasks
    rs,          \* collect_join_set's buffer of the query (krunner.rs:229)
    rsSrc,       \* for each element of rs, the backend whose task produced it
    pjoined,     \* how many per-backend tasks join_next has returned
    result,      \* what query returned
    calls,       \* bag of the backend calls made
    spawned,     \* number of tasks spawned by the query
    actRef,      \* the data string passed to run
    actOpen,     \* what the open call of run did: "none", "ok", "err"
    actResult    \* what run returned: "none", "ok", "err"

vars == <<providers, sdsResp, searchResp, pc, raw, kw, term, ptask, dtask, pq,
          dq, rs, rsSrc, pjoined, result, calls, spawned, actRef, actOpen,
          actResult>>

scenario == <<providers, sdsResp, searchResp>>

Providers == 1..Len(providers)

\* A backend call returns a value, returns an error, or panics (the task
\* then ends with a JoinError).
SdsOutcomes == {"ok", "empty", "err", "panic"}
SearchOutcomes == {"ok", "err", "panic"}

\* What p.search_doc_sets(kw) gives (provider.rs:39).
SdsResponse(p) ==
    IF sdsResp[p] = "ok" THEN [kind |-> "ok", doc_sets |-> DocSetsOf(p)]
    ELSE IF sdsResp[p] = "empty" THEN [kind |-> "ok", doc_sets |-> <<>>]
    ELSE [kind |-> sdsResp[p], doc_sets |-> <<>>]

\* What p.search(ds.id, q) gives for the i-th docset (provider.rs:40).
SearchResponse(p, i) ==
    IF searchResp[p][i] = "ok"
    THEN [kind |-> "ok", entries |-> EntriesOf(p, DocSetsOf(p)[i].id)]
    ELSE [kind |-> searchResp[p][i], entries |-> <<>>]

NoTask == [st |-> "none", out |-> <<>>, buf |-> <<>>, joined |-> 0, fan |-> "none"]

NoResult == [kind |-> "none", entries |-> <<>>]

Call(op, p, a1, a2) == [op |-> op, p |-> p, a1 |-> a1, a2 |-> a2]

\* Raw queries: every whitespace-only string up to MaxWsLen, and queries
\* with one, two and three tokens.
RECURSIVE SeqsUpTo(_, _)
SeqsUpTo(S, n) ==
    IF n = 0 THEN {<<>>}
    ELSE LET shorter == SeqsUpTo(S, n - 1)
         IN  shorter \cup {Append(s, c) : s \in shorter, c \in S}

WhitespaceQueries == SeqsUpTo(UnicodeWhitespace, MaxWsLen)

KeywordQueries ==
    { <<"p", "y">>,
      <<NBSP, "p", "y", " ", VT>>,
      <<"p", NBSP, "l">>,
      <<"p", "y", " ", "l", "s">>,
      <<" ", "p", "y", "\t", " ", "l", "s", " ", "a", NBSP, "b", " ", "c">> }

RawQueries == WhitespaceQueries \cup KeywordQueries

\* The state of a plugin that has served no call yet. The responses of
\* calls that are never made are fixed to "ok".
InitState ==
    /\ \A p \in Providers : \A i \in 1..MaxDocSets :
           (sdsResp[p] # "ok" \/ i > Len(DocSetsOf(p))) => searchResp[p][i] = "ok"
    /\ pc = "idle"
    /\ raw = <<>>
    /\ kw = <<>>
    /\ term = <<>>
    /\ ptask = [p \in Providers |-> NoTask]
    /\ dtask = [p \in Providers |-> <<>>]
    /\ pq = <<>>
    /\ dq = [p \in Providers |-> <<>>]
    /\ rs = <<>>
    /\ rsSrc = <<>>
    /\ pjoined = 0
    /\ result = NoResult
    /\ calls = EmptyBag
    /\ spawned = 0
    /\ actRef = <<>>
    /\ actOpen = "none"
    /\ actResult = "none"

\* Backends whose every call returns or panics.
Init ==
    /\ providers \in Registries
    /\ sdsResp \in [Providers -> SdsOutcomes]
    /\ searchResp \in [Providers -> [1..MaxDocSets -> SearchOutcomes]]
    /\ InitState

\* A call whose response is "hang" never returns (the engine sets no
\* timeout, krunner.rs:102 and 206).
Hangs(p) ==
    \/ sdsResp[p] = "hang"
    \/ \E i \in 1..MaxDocSets : searchResp[p][i] = "hang"

\* Backends of which at least one has a call that never returns.
InitHang ==
    /\ providers \in Registries
    /\ sdsResp \in [Providers -> SdsOutcomes \cup {"hang"}]
    /\ searchResp \in [Providers -> [1..MaxDocSets -> SearchOutcomes \cup {"hang"}]]
    /\ \E p \in Providers : Hangs(p)
    /\ InitState

\* ---------------------------------------------------------------- query

\* krunner.rs:79-101: parse, return early without a keyword, otherwise spawn
\* one task per provider.
Query(r) ==
    /\ pc = "idle"
    /\ raw' = r
    /\ LET parsed == ParseQuery(r)
       IN  IF ~parsed.found \/ Providers = {}
           THEN /\ pc' = "returned"
                /\ result' = [kind |-> "ok", entries |-> <<>>]
                /\ UNCHANGED <<kw, term, ptask, spawned>>
           ELSE /\ pc' = "querying"
                /\ kw' = parsed.kw
                /\ term' = parsed.query
                /\ ptask' = [p \in Providers |-> [NoTask EXCEPT !.st = "spawned"]]
                /\ spawned' = Len(providers)
                /\ UNCHANGED result
    /\ UNCHANGED <<scenario, dtask, pq, dq, rs, rsSrc, pjoined, calls, actRef,
                   actOpen, actResult>>

\* krunner.rs:102: the task of provider p starts and calls search_doc_sets.
ProviderStart(p) ==
    /\ pc = "querying"
    /\ ptask[p].st = "spawned"
    /\ ptask' = [ptask EXCEPT ![p].st = "sds"]
    /\ calls' = calls (+) SetToBag({Call("search_doc_sets", p, kw, <<>>)})
    /\ UNCHANGED <<scenario, pc, raw, kw, term, dtask, pq, dq, rs, rsSrc,
                   pjoined, result, spawned, actRef, actOpen, actResult>>

\* krunner.rs:102-109: the docsets the task goes on with; none when the
\* call failed or returned an empty list.
MatchedDocSets(resp) ==
    IF resp.kind = "ok" /\ resp.doc_sets # <<>> THEN resp.doc_sets ELSE <<>>

\* An awaited call given up after a while, as under tokio::time::timeout.
CallTimesOut(outcome) == TRUE

\* krunner.rs:102 and 206, the .await of a backend call: the task goes on
\* only when the call returns.
CallReturns(outcome) == outcome # "hang"

\* A term that is never taken as empty (the check of krunner.rs:111 left out).
TermNeverEmpty(q) == FALSE

\* krunner.rs:111, query.is_empty()
TermIsEmpty(q) == q = <<>>

\* A join loop that stops after the first task it joins.
FirstJoined(joined, total) == joined >= 1

\* A join loop that waits for one task more than were spawned.
JoinedBeyond(joined, total) == joined > total

\* krunner.rs:230, the while let of collect_join_set: join_next gives None,
\* and the loop ends, once every task of the set has been joined.
AllJoined(joined, total) == joined = total

\* Items put in front of the buffer, last first.
ExtendReversed(buf, items) ==
    buf \o [k \in 1..Len(items) |-> items[Len(items) + 1 - k]]

\* krunner.rs:150 and 223, Vec::extend: the items go to the end of the
\* buffer in their order.
ExtendBuf(buf, items) == buf \o items

\* krunner.rs:102: whether the awaited call ends the task with a JoinError.
\* An Err is a value the match handles; only a panic unwinds the task.
UnwrapsError(resp) == resp.kind \in {"panic", "err"}

SdsEndsTask(resp) == resp.kind = "panic"

\* krunner.rs:102-137 and 195-220: search_doc_sets returns in the task of
\* provider p. The task ends (panic, nothing matched, completions), or it
\* enters search_in_doc_sets and spawns one task per docset.
ProviderSdsReturn(p) ==
    /\ pc = "querying"
    /\ ptask[p].st = "sds"
    /\ CallReturns(sdsResp[p])
    /\ LET resp     == SdsResponse(p)
           doc_sets == MatchedDocSets(resp)
       IN  IF SdsEndsTask(resp)
           THEN /\ ptask' = [ptask EXCEPT ![p].st = "panicked"]
                /\ pq' = Append(pq, p)
                /\ UNCHANGED <<dtask, spawned>>
           ELSE IF doc_sets = <<>>
           THEN /\ ptask' = [ptask EXCEPT ![p].st = "done"]
                /\ pq' = Append(pq, p)
                /\ UNCHANGED <<dtask, spawned>>
           ELSE IF TermIsEmpty(term)
           THEN /\ ptask' = [ptask EXCEPT
                                ![p].st = "done",
                                ![p].out = CompletionEntries(providers[p], doc_sets)]
                /\ pq' = Append(pq, p)
                /\ UNCHANGED <<dtask, spawned>>
           ELSE /\ ptask' = [ptask EXCEPT ![p].st = "collect"]
                /\ dtask' = [dtask EXCEPT ![p] =
                                [i \in 1..Len(doc_sets) |->
                                    [st |-> "spawned", ds |-> doc_sets[i],
                                     out |-> <<>>]]]
                /\ spawned' = spawned + Len(doc_sets)
                /\ UNCHANGED pq
    /\ UNCHANGED <<scenario, pc, raw, kw, term, dq, rs, rsSrc, pjoined, result,
                   calls, actRef, actOpen, actResult>>

\* krunner.rs:206: the task of docset i of provider p starts and calls search.
DocStart(p, i) ==
    /\ pc = "querying"
    /\ i \in DOMAIN dtask[p]
    /\ dtask[p][i].st = "spawned"
    /\ dtask' = [dtask EXCEPT ![p][i].st = "search"]
    /\ calls' = calls (+) SetToBag({Call("search", p, dtask[p][i].ds.id, term)})
    /\ UNCHANGED <<scenario, pc, raw, kw, term, ptask, pq, dq, rs, rsSrc,
                   pjoined, result, spawned, actRef, actOpen, actResult>>

\* krunner.rs:206-218: search returns in the task of docset i; the task
\* completes with the mapped entries ("ok"), with the error ("err"), or by
\* a panic.
DocSearchReturn(p, i) ==
    /\ pc = "querying"
    /\ i \in DOMAIN dtask[p]
    /\ dtask[p][i].st = "search"
    /\ CallReturns(searchResp[p][i])
    /\ LET resp == SearchResponse(p, i)
       IN  dtask' = [dtask EXCEPT
                        ![p][i].st = IF resp.kind = "panic" THEN "panicked"
                                     ELSE resp.kind,
                        ![p][i].out = MapEntries(providers[p], dtask[p][i].ds,
                                                 resp.entries)]
    /\ dq' = [dq EXCEPT ![p] = Append(@, i)]
    /\ UNCHANGED <<scenario, pc, raw, kw, term, ptask, pq, rs, rsSrc, pjoined,
                   result, calls, spawned, actRef, actOpen, actResult>>

\* Tasks that outlive their JoinSet (detached instead of aborted).
DetachDocTasks(ts) == ts

\* Dropping a JoinSet aborts the tasks still in it.
AbortDocTasks(ts) ==
    [i \in DOMAIN ts |->
        IF ts[i].st \in {"spawned", "search"}
        THEN [ts[i] EXCEPT !.st = "aborted"] ELSE ts[i]]

\* A search error skipped instead of returned: buf.extend(r?.unwrap_or_default()).
DocResultSkipsErr(t) == t.st \in {"ok", "err"}

\* krunner.rs:222-225, the closure buf.extend(r??): whether the joined
\* per-docset task's value is added to the buffer; a JoinError and a search
\* error both make the closure return the error.
DocResultOk(t) == t.st = "ok"

\* krunner.rs:139-145 and 222-234: collect_join_set inside search_in_doc_sets
\* takes the next completed per-docset task. On an error it returns at once,
\* the JoinSet is dropped, and the provider's task logs the error and ends
\* with an empty list; after the last task it returns the buffer.
ProviderCollect(p) ==
    /\ pc = "querying"
    /\ ptask[p].st = "collect"
    /\ dq[p] # <<>>
    /\ LET i == Head(dq[p])
           t == dtask[p][i]
           buf == ExtendBuf(ptask[p].buf, t.out)
       IN  IF ~DocResultOk(t)
           THEN /\ ptask' = [ptask EXCEPT ![p].st = "done", ![p].out = <<>>,
                                          ![p].fan = "err",
                                          ![p].joined = @ + 1]
                /\ dtask' = [dtask EXCEPT ![p] = AbortDocTasks(@)]
                /\ dq' = [dq EXCEPT ![p] = <<>>]
                /\ pq' = Append(pq, p)
           ELSE IF AllJoined(ptask[p].joined + 1, Len(dtask[p]))
           THEN /\ ptask' = [ptask EXCEPT ![p].st = "done", ![p].out = buf,
                                          ![p].buf = buf, ![p].fan = "ok",
                                          ![p].joined = @ + 1]
                /\ dq' = [dq EXCEPT ![p] = Tail(@)]
                /\ pq' = Append(pq, p)
                /\ UNCHANGED dtask
           ELSE /\ ptask' = [ptask EXCEPT ![p].buf = buf, ![p].joined = @ + 1]
                /\ dq' = [dq EXCEPT ![p] = Tail(@)]
                /\ UNCHANGED <<dtask, pq>>
    /\ UNCHANGED <<scenario, pc, raw, kw, term, rs, rsSrc, pjoined, result,
                   calls, spawned, actRef, actOpen, actResult>>

\* A JoinError skipped instead of returned: buf.extend(rs.unwrap_or_default()).
ProviderResultSkipsErr(t) == TRUE

\* krunner.rs:149-152, the closure buf.extend(rs?): whether the joined
\* per-provider task's value is added; only a JoinError is an error here.
ProviderResultOk(t) == t.st = "done"

\* krunner.rs:149-152 and 228-234: collect_join_set of the query takes the
\* next completed per-provider task. On an error query returns the failure
\* and the JoinSet is dropped (the remaining tasks, and the tasks of their
\* JoinSets, are aborted); after the last task query returns the buffer.
QueryCollect ==
    /\ pc = "querying"
    /\ pq # <<>>
    /\ LET p == Head(pq)
           buf == ExtendBuf(rs, ptask[p].out)
       IN  IF ~ProviderResultOk(ptask[p])
           THEN /\ result' = [kind |-> "err", entries |-> <<>>]
                /\ pc' = "returned"
                /\ ptask' = [q \in Providers |->
                                IF ptask[q].st \in {"spawned", "sds", "collect"}
                                THEN [ptask[q] EXCEPT !.st = "aborted"]
                                ELSE ptask[q]]
                /\ dtask' = [q \in Providers |-> AbortDocTasks(dtask[q])]
                /\ pq' = <<>>
                /\ dq' = [q \in Providers |-> <<>>]
                /\ pjoined' = pjoined + 1
                /\ UNCHANGED <<rs, rsSrc>>
           ELSE /\ rs' = buf
                /\ rsSrc' = rsSrc \o [k \in 1..Len(ptask[p].out) |-> p]
                /\ pq' = Tail(pq)
                /\ pjoined' = pjoined + 1
                /\ IF AllJoined(pjoined + 1, Len(providers))
                   THEN /\ result' = [kind |-> "ok", entries |-> buf]
                        /\ pc' = "returned"
                   ELSE UNCHANGED <<result, pc>>
                /\ UNCHANGED <<ptask, dtask, dq>>
    /\ UNCHANGED <<scenario, raw, kw, term, calls, spawned, actRef, actOpen,
                   actResult>>


\* ------------------------------------------------------------------ run

\* A name looked up without comparing it: the first provider.
FindAnyProvider(name) == IF Providers = {} THEN 0 ELSE 1

\* A lookup that falls back to the first provider when none has the name.
FindProviderOrFirst(name) ==
    LET hits == {p \in Providers : providers[p] = name}
    IN  IF hits = {} THEN (IF Providers = {} THEN 0 ELSE 1)
        ELSE CHOOSE p \in hits : \A q \in hits : p <= q

\* krunner.rs:169, providers.iter().find(..): the first provider with this
\* name, 0 when there is none.
FindProvider(name) ==
    LET hits == {p \in Providers : providers[p] = name}
    IN  IF hits = {} THEN 0
        ELSE CHOOSE p \in hits : \A q \in hits : p <= q

\* The parse error logged and dropped.
RunIgnoresMalformed == "ok"

\* krunner.rs:163-165: what run returns when from_str fails.
RunOnMalformed == "err"

\* The error of open logged and dropped.
RunIgnoresOpen(outcome) == "ok"

\* krunner.rs:170-171: what run returns after open returned outcome.
RunAfterOpen(outcome) == IF outcome = "err" THEN "err" ELSE "ok"

\* Data strings run is called with that no query returned: not JSON, a
\* truncated object, a missing field, a provider that is not registered, a
\* docset reference, an item reference with whitespace around it.
MissingFieldRef ==
    <<"{">> \o JsonString(NameEntry) \o <<":", "{">>
    \o JsonField(NameProvider, DashName) \o <<"}", "}">>

UnknownProviderRef ==
    ToJsonString(EntryDataEntry(<<"X">>, DocSetPython.id, <<"u">>))

PaddedRef ==
    <<" ">> \o ToJsonString(EntryDataEntry(DashName, DocSetPython.id, <<"u">>))
    \o <<" ">>

OtherRefs ==
    { <<>>,
      <<"p", "y">>,
      SubSeq(UnknownProviderRef, 1, Len(UnknownProviderRef) - 1),
      MissingFieldRef,
      UnknownProviderRef,
      ToJsonString(EntryDataDocSet(DashName, DocSetPython.id)),
      PaddedRef }

ResultRefs == {result.entries[k].data : k \in 1..Len(result.entries)}

\* krunner.rs:162-176: run(data, action_id), called after a query returned.
Activate(ref) ==
    /\ pc = "returned"
    /\ pc' = "activated"
    /\ actRef' = ref
    /\ LET parsed == FromJsonString(ref)
       IN  IF ~parsed.ok
           THEN /\ actResult' = RunOnMalformed
                /\ UNCHANGED <<actOpen, calls>>
           ELSE IF parsed.data.variant = "Entry"
                   /\ FindProvider(parsed.data.provider) # 0
           THEN \E outcome \in {"ok", "err"} :
                   /\ calls' = calls (+) SetToBag({
                          Call("open", FindProvider(parsed.data.provider),
                               parsed.data.doc_set_id, parsed.data.url)})
                   /\ actOpen' = outcome
                   /\ actResult' = RunAfterOpen(outcome)
           ELSE /\ actResult' = "ok"
                /\ UNCHANGED <<actOpen, calls>>
    /\ UNCHANGED <<scenario, raw, kw, term, ptask, dtask, pq, dq, rs, rsSrc,
                   pjoined, result, spawned>>

\* ---------------------------------------------------------- specification

Next ==
    \/ \E r \in RawQueries : Query(r)
    \/ \E p \in Providers : ProviderStart(p)
    \/ \E p \in Providers : ProviderSdsReturn(p)
    \/ \E p \in Providers : \E i \in 1..MaxDocSets : DocStart(p, i)
    \/ \E p \in Providers : \E i \in 1..MaxDocSets : DocSearchReturn(p, i)
    \/ \E p \in Providers : ProviderCollect(p)
    \/ QueryCollect
    \/ \E ref \in ResultRefs \cup OtherRefs : Activate(ref)

Spec == Init /\ [][Next]_vars

\* The same plugin over backends with a call that never returns.
SpecHang == InitHang /\ [][Next]_vars

\* Fair scheduling: a task that can take its next step eventually takes it,
\* and a call that returns eventually returns (tokio polls every runnable
\* task; no call of Init's backends hangs).
Fairness ==
    /\ WF_vars(\E p \in Providers : ProviderStart(p))
    /\ WF_vars(\E p \in Providers : ProviderSdsReturn(p))
    /\ WF_vars(\E p \in Providers : \E i \in 1..MaxDocSets : DocStart(p, i))
    /\ WF_vars(\E p \in Providers : \E i \in 1..MaxDocSets : DocSearchReturn(p, i))
    /\ WF_vars(\E p \in Providers : ProviderCollect(p))
    /\ WF_vars(QueryCollect)

FairSpec == Init /\ [][Next]_vars /\ Fairness


\* ------------------------------------------------------------ properties

Returned == pc \in {"returned", "activated"}

\* The query got past parsing and spawned its tasks.
Dispatched == Returned /\ spawned > 0

\* The entries of the returned list that the task of backend p produced,
\* in the order of the list.
ContributionOf(p) ==
    LET F[k \in 0..Len(rs)] ==
            IF k = 0 THEN <<>>
            ELSE IF rsSrc[k] = p THEN Append(F[k - 1], rs[k]) ELSE F[k - 1]
    IN  F[Len(rs)]

SeqToBag(s) ==
    [x \in {s[k] : k \in 1..Len(s)} |-> Cardinality({k \in 1..Len(s) : s[k] = x})]

DocSetIdx(p) == 1..Len(DocSetsOf(p))

\* What backend p yields on its own responses alone: nothing unless its
\* search_doc_sets returned docsets; its completions for an empty term;
\* otherwise the entries of its docsets, or nothing when one search did not
\* return a list.
OwnEntries(p) ==
    IF sdsResp[p] # "ok" THEN <<>>
    ELSE IF term = <<>> THEN CompletionEntries(providers[p], DocSetsOf(p))
    ELSE IF \A i \in DocSetIdx(p) : searchResp[p][i] = "ok"
    THEN Flatten([i \in DocSetIdx(p) |->
                     MapEntries(providers[p], DocSetsOf(p)[i],
                                EntriesOf(p, DocSetsOf(p)[i].id))])
    ELSE <<>>

SomePanic ==
    \/ \E p \in Providers : sdsResp[p] = "panic"
    \/ \E p \in Providers : \E i \in DocSetIdx(p) : searchResp[p][i] = "panic"

\* C1: a backend whose search_doc_sets fails or returns an empty list
\* contributes no entry, does not make query fail (query fails only when a
\* per-backend task ended with a JoinError), and every other backend
\* contributes exactly the entries its own responses determine.
C1_FailedBackendIsolated ==
    Dispatched =>
        \A b \in Providers :
            sdsResp[b] \in {"err", "empty"} =>
                /\ result.kind \in {"ok", "err"}
                /\ result.kind = "err" => \E q \in Providers : sdsResp[q] = "panic"
                /\ result.kind = "ok" =>
                      /\ result.entries = rs
                      /\ ContributionOf(b) = <<>>
                      /\ \A q \in Providers \ {b} :
                            SeqToBag(ContributionOf(q)) = SeqToBag(OwnEntries(q))

\* C1 witness: a query returned entries of one backend while the other
\* backend's search_doc_sets had failed.
C1_Witness ==
    /\ pc = "returned"
    /\ result.kind = "ok"
    /\ \E b \in Providers : \E q \in Providers \ {b} :
          /\ sdsResp[b] = "err"
          /\ Call("search_doc_sets", b, kw, <<>>) \in BagToSet(calls)
          /\ ContributionOf(q) # <<>>

\* The case of C2: the term is not empty, backend p's search_doc_sets
\* returned several docsets, search fails for exactly one of them and
\* returns a list for the others, and no call panics.
OneSearchFails(p) ==
    /\ Dispatched
    /\ term # <<>>
    /\ ~SomePanic
    /\ sdsResp[p] = "ok"
    /\ Len(DocSetsOf(p)) >= 2
    /\ Cardinality({i \in DocSetIdx(p) : searchResp[p][i] = "err"}) = 1

\* C2 as stated: with one failing docset the fan-out returns success and
\* every entry of every succeeding docset is in the returned list.
C2_AsStated ==
    \A p \in Providers :
        OneSearchFails(p) =>
            /\ ptask[p].fan = "ok"
            /\ \A i \in DocSetIdx(p) :
                  searchResp[p][i] = "ok" =>
                      \A e \in {dtask[p][i].out[k] : k \in 1..Len(dtask[p][i].out)} :
                          \E k \in 1..Len(result.entries) : result.entries[k] = e

\* C2 amended: with one failing docset the fan-out returns the failure, the
\* backend's task turns it into an empty list (no entry of any of the
\* backend's docsets is returned), and query still returns success.
C2_OneFailureEmptiesBackend ==
    \A p \in Providers :
        OneSearchFails(p) =>
            /\ ptask[p].fan = "err"
            /\ ptask[p].st = "done"
            /\ result.kind = "ok"
            /\ ContributionOf(p) = <<>>

\* C2 witness: the fan-out failed although a sibling docset's task had
\* completed with entries.
C2_Witness ==
    /\ pc = "returned"
    /\ \E p \in Providers :
          /\ OneSearchFails(p)
          /\ ptask[p].fan = "err"
          /\ \E i \in DOMAIN dtask[p] : dtask[p][i].st = "ok" /\ dtask[p][i].out # <<>>

Completed == {"ok", "err", "panicked"}

\* C3 as stated: whenever a collecting step has returned, every task it
\* collects has run to completion, and no task is ever aborted.
C3_AsStated ==
    /\ \A p \in Providers :
          ptask[p].fan # "none" =>
              \A i \in DOMAIN dtask[p] : dtask[p][i].st \in Completed
    /\ Returned => \A p \in Providers : ptask[p].st \in {"none", "done", "panicked"}
    /\ \A p \in Providers :
          /\ ptask[p].st # "aborted"
          /\ \A i \in DOMAIN dtask[p] : dtask[p][i].st # "aborted"

\* C3 amended: a collecting step returns success only after every task it
\* collects has completed; it returns a failure as soon as it joins a failed
\* task (a JoinError at either level, a search error at the docset level),
\* and the siblings still running are then aborted. Tasks are aborted in no
\* other way.
C3_JoinAllUnlessFailure ==
    /\ \A p \in Providers :
          /\ ptask[p].fan = "ok" =>
                /\ ptask[p].joined = Len(dtask[p])
                /\ \A i \in DOMAIN dtask[p] : dtask[p][i].st = "ok"
          /\ ptask[p].fan = "err" =>
                /\ \E i \in DOMAIN dtask[p] : dtask[p][i].st \in {"err", "panicked"}
                /\ \A i \in DOMAIN dtask[p] :
                      dtask[p][i].st \in Completed \cup {"aborted"}
          /\ \A i \in DOMAIN dtask[p] :
                dtask[p][i].st = "aborted" =>
                    ptask[p].fan = "err" \/ result.kind = "err"
          /\ ptask[p].st = "aborted" => result.kind = "err"
    /\ Dispatched /\ result.kind = "ok" =>
          /\ pjoined = Len(providers)
          /\ \A p \in Providers : ptask[p].st = "done"
    /\ Dispatched /\ result.kind = "err" =>
          /\ \E p \in Providers : ptask[p].st = "panicked"
          /\ \A p \in Providers : ptask[p].st \in {"done", "panicked", "aborted"}

\* C3 witness: a fan-out returned its failure while a sibling task was
\* still waiting for search, and that task was aborted.
C3_Witness ==
    \E p \in Providers :
        /\ ptask[p].fan = "err"
        /\ \E i \in DOMAIN dtask[p] :
              /\ dtask[p][i].st = "aborted"
              /\ Call("search", p, dtask[p][i].ds.id, term) \in BagToSet(calls)

IsBlank(s) == \A k \in 1..Len(s) : s[k] \in UnicodeWhitespace

\* C4: a query that is empty or only whitespace returns the empty list with
\* success, spawns no task and calls no backend.
C4_BlankQueryCallsNothing ==
    (pc # "idle" /\ IsBlank(raw)) =>
        /\ Returned
        /\ result = [kind |-> "ok", entries |-> <<>>]
        /\ spawned = 0
        /\ \A p \in Providers : ptask[p].st = "none" /\ dtask[p] = <<>>
        /\ pc = "returned" => calls = EmptyBag
        /\ \A c \in BagToSet(calls) : c.op = "open"

\* C4 witness: a query of whitespace only, some of it not ASCII, returned.
C4_Witness ==
    /\ pc = "returned"
    /\ Len(raw) = MaxWsLen
    /\ IsBlank(raw)
    /\ \E k \in 1..Len(raw) : raw[k] = NBSP
    /\ \E k \in 1..Len(raw) : raw[k] = " "


ParsesOk(ref) == FromJsonString(ref).ok

\* C5 as stated: query and run return an error only for a malformed
\* reference or a join fault; a failing open is not reported.
C5_AsStated ==
    /\ Returned /\ result.kind = "err" => SomePanic
    /\ pc = "activated" /\ actResult = "err" => ~ParsesOk(actRef)

\* C5 amended: an error of search_doc_sets or search is never surfaced by
\* query, which fails only when a per-backend task ended with a JoinError;
\* an error of open is surfaced: run returns an error exactly when the
\* reference is malformed or the open call failed.
C5_OnlyOpenErrorSurfaces ==
    /\ Returned /\ result.kind = "err" => \E p \in Providers : sdsResp[p] = "panic"
    /\ Dispatched /\ (\A p \in Providers : sdsResp[p] # "panic") => result.kind = "ok"
    /\ pc = "activated" =>
          /\ actResult \in {"ok", "err"}
          /\ actResult = "err" <=> (~ParsesOk(actRef) \/ actOpen = "err")

\* C5 witness: run was given a well-formed item reference of a registered
\* backend, open failed, and run returned the error.
C5_Witness ==
    /\ pc = "activated"
    /\ ParsesOk(actRef)
    /\ actOpen = "err"
    /\ actResult = "err"
    /\ \E c \in BagToSet(calls) : c.op = "open"

\* C6 as stated: a JoinError of any spawned task, per-backend or
\* per-docset, makes query return a failure.
C6_AsStated ==
    Returned =>
        ((\/ \E p \in Providers : ptask[p].st = "panicked"
          \/ \E p \in Providers : \E i \in DOMAIN dtask[p] :
                dtask[p][i].st = "panicked")
         => result.kind = "err")

\* C6 amended: a JoinError of a per-backend task makes query return a
\* failure, and nothing else does; a JoinError of a per-docset task makes
\* search_in_doc_sets fail, and the backend's task turns that failure into
\* an empty contribution.
C6_JoinErrorPerLevel ==
    Dispatched =>
        /\ result.kind = "err" <=> \E p \in Providers : ptask[p].st = "panicked"
        /\ \A p \in Providers :
              (\E i \in DOMAIN dtask[p] : dtask[p][i].st = "panicked") =>
                  /\ ptask[p].st \in {"done", "aborted"}
                  /\ ptask[p].out = <<>>
                  /\ ptask[p].st = "done" => ptask[p].fan = "err"
                  /\ result.kind = "ok" => ContributionOf(p) = <<>>

\* C6 witness: a per-docset task panicked and query returned success.
C6_Witness ==
    /\ pc = "returned"
    /\ result.kind = "ok"
    /\ \E p \in Providers : \E i \in DOMAIN dtask[p] :
          dtask[p][i].st = "panicked" /\ ptask[p].fan = "err"

\* The first token of s (up to the first ASCII whitespace).
RECURSIVE FirstToken(_)
FirstToken(s) ==
    IF s = <<>> \/ Head(s) \in AsciiWhitespace THEN <<>>
    ELSE <<Head(s)>> \o FirstToken(Tail(s))

\* The whole remainder of a raw query after its keyword: the trimmed query
\* without its first token and the whitespace that follows it.
Remainder(rawq) ==
    LET t == Trim(rawq)
    IN  TrimAsciiStart(SubSeq(t, Len(FirstToken(t)) + 1, Len(t)))

\* C7: the term handed to every search call is the whole remainder of the
\* raw query after the keyword.
C7_TermIsRemainder ==
    \A c \in BagToSet(calls) : c.op = "search" => c.a2 = Remainder(raw)

RECURSIVE SumLen(_)
SumLen(ss) == IF ss = <<>> THEN 0 ELSE Len(Head(ss)) + SumLen(Tail(ss))

ParsedData(q) == FromJsonString(q.data)

\* C8: with an empty term, a backend whose search_doc_sets returned docsets
\* contributes one entry per (docset, keyword) pair and no other entry, each
\* a COMPLETION of relevance 1.0 whose data is the DocSet reference of that
\* backend and docset.
C8_OneCompletionPerKeyword ==
    (Dispatched /\ term = <<>> /\ result.kind = "ok") =>
        \A p \in Providers :
            sdsResp[p] = "ok" =>
                LET own == ContributionOf(p)
                    dss == DocSetsOf(p)
                IN  /\ Len(own) = SumLen([i \in DocSetIdx(p) |-> dss[i].keywords])
                    /\ \A k \in 1..Len(own) :
                          /\ own[k].match_type = MATCH_TYPE_COMPLETION
                          /\ own[k].relevance.num = own[k].relevance.den
                          /\ ParsedData(own[k]).ok
                          /\ ParsedData(own[k]).data.variant = "DocSet"
                          /\ ParsedData(own[k]).data.provider = providers[p]
                    /\ \A i \in DocSetIdx(p) : \A j \in 1..Len(dss[i].keywords) :
                          Cardinality({k \in 1..Len(own) :
                              /\ ParsedData(own[k]).data.id = dss[i].id
                              /\ own[k].display_text =
                                    TextType \o dss[i].keywords[j] \o TextToSearch
                                    \o dss[i].name})
                          = Cardinality({m \in 1..Len(dss[i].keywords) :
                                dss[i].keywords[m] = dss[i].keywords[j]})

\* C8 witness: a query with an empty term returned the completions of a
\* backend with several docsets, one of them with two keywords.
C8_Witness ==
    /\ pc = "returned"
    /\ term = <<>>
    /\ result.kind = "ok"
    /\ \E p \in Providers :
          /\ sdsResp[p] = "ok"
          /\ Len(DocSetsOf(p)) >= 2
          /\ Len(ContributionOf(p)) > Len(DocSetsOf(p))

NoCallFails ==
    \A p \in Providers :
        /\ sdsResp[p] \in {"ok", "empty"}
        /\ \A i \in DocSetIdx(p) : searchResp[p][i] = "ok"

\* The search entries all searches of the query return, backend by backend.
AllSearchEntries ==
    Flatten([p \in Providers |->
        IF sdsResp[p] = "ok"
        THEN Flatten([i \in DocSetIdx(p) |-> EntriesOf(p, DocSetsOf(p)[i].id)])
        ELSE <<>>])

\* C9: with a non-empty term and no failing call, every SearchEntry that a
\* search returned yields exactly one QueryEntry, of match type EXACT, whose
\* data is the item reference of the backend's name, the searched docset's
\* id and the entry's id; and the result holds no other entry.
C9_OneItemPerSearchEntry ==
    (Dispatched /\ term # <<>> /\ NoCallFails) =>
        /\ result.kind = "ok"
        /\ Len(result.entries) = Len(AllSearchEntries)
        /\ \A p \in Providers :
              sdsResp[p] = "ok" =>
                  \A i \in DocSetIdx(p) :
                      LET ds == DocSetsOf(p)[i]
                          es == EntriesOf(p, ds.id)
                      IN  /\ Call("search", p, ds.id, term) \in BagToSet(calls)
                          /\ \A j \in 1..Len(es) :
                                Cardinality({k \in 1..Len(result.entries) :
                                    /\ rsSrc[k] = p
                                    /\ result.entries[k].match_type = MATCH_TYPE_EXACT
                                    /\ ParsedData(result.entries[k]).ok
                                    /\ ParsedData(result.entries[k]).data =
                                          EntryDataEntry(providers[p], ds.id, es[j].id)})
                                = 1

\* C9 witness: a query with a term returned the entries of two backends,
\* one of them with several docsets.
C9_Witness ==
    /\ pc = "returned"
    /\ term # <<>>
    /\ NoCallFails
    /\ Len(providers) = 2
    /\ \A p \in Providers : sdsResp[p] = "ok" /\ ContributionOf(p) # <<>>
    /\ Len(result.entries) >= 3

NamesUnique ==
    \A p \in Providers : \A q \in Providers : providers[p] = providers[q] => p = q

OpenCalls == {c \in BagToSet(calls) : c.op = "open"}

\* C10: run on the unmodified data of an item entry that query returned
\* deserializes the reference that was serialized and calls open exactly
\* once, on the backend whose task produced the entry, with the id of a
\* docset that was searched and the id of an entry of that docset; it calls
\* search_doc_sets and search no further time.
C10_ItemReferenceRoundTrip ==
    (pc = "activated" /\ result.kind = "ok" /\ NamesUnique) =>
        \A k \in 1..Len(result.entries) :
            (result.entries[k].data = actRef
             /\ result.entries[k].match_type = MATCH_TYPE_EXACT) =>
                LET p == rsSrc[k]
                    d == FromJsonString(actRef)
                IN  /\ d.ok
                    /\ d.data.variant = "Entry"
                    /\ d.data.provider = providers[p]
                    /\ ToJsonString(d.data) = actRef
                    /\ \E i \in DocSetIdx(p) :
                          /\ DocSetsOf(p)[i].id = d.data.doc_set_id
                          /\ CopiesIn(Call("search", p, d.data.doc_set_id, term),
                                      calls) = 1
                          /\ \E j \in 1..Len(EntriesOf(p, d.data.doc_set_id)) :
                                /\ EntriesOf(p, d.data.doc_set_id)[j].id = d.data.url
                                /\ EntriesOf(p, d.data.doc_set_id)[j].title
                                       = result.entries[k].display_text
                    /\ OpenCalls = {Call("open", p, d.data.doc_set_id, d.data.url)}
                    /\ \A c \in OpenCalls : CopiesIn(c, calls) = 1
                    /\ \A c \in BagToSet(calls) : CopiesIn(c, calls) = 1
                    /\ \A q \in Providers :
                          CopiesIn(Call("search_doc_sets", q, kw, <<>>), calls) = 1

\* C10 witness: run was given the data of an item entry whose docset id
\* and item id both need JSON escaping, and open was called.
C10_Witness ==
    /\ pc = "activated"
    /\ result.kind = "ok"
    /\ actOpen # "none"
    /\ \E k \in 1..Len(result.entries) :
          /\ result.entries[k].data = actRef
          /\ result.entries[k].match_type = MATCH_TYPE_EXACT
          /\ FromJsonString(actRef).ok
          /\ FromJsonString(actRef).data.doc_set_id = DocSetQt.id
          /\ Len(actRef) > Len(ToJsonString(EntryDataEntry(
                 <<>>, <<>>, <<>>))) + Len(providers[rsSrc[k]])
                 + Len(DocSetQt.id) + Len(FromJsonString(actRef).data.url)


ActivateStep == pc = "returned" /\ pc' = "activated"

Registered(name) == \E p \in Providers : providers[p] = name

\* C11: run on a well-formed item reference whose provider is the name of
\* a registered backend makes exactly one backend call: open on a backend
\* of that name, with the docset id and the item id of the reference.
C11_OpenOnNamedBackend ==
    [][ActivateStep =>
          LET d == FromJsonString(actRef')
          IN  (d.ok /\ d.data.variant = "Entry" /\ Registered(d.data.provider)) =>
                  \E p \in Providers :
                      /\ providers[p] = d.data.provider
                      /\ calls' = calls (+) SetToBag({
                             Call("open", p, d.data.doc_set_id, d.data.url)})]_vars

\* C11 witness: run opened an item of the second backend after a query
\* that had called the first backend too.
C11_Witness ==
    /\ pc = "activated"
    /\ actOpen # "none"
    /\ FromJsonString(actRef).data.provider = OtherName
    /\ Call("open", 2, FromJsonString(actRef).data.doc_set_id,
            FromJsonString(actRef).data.url) \in BagToSet(calls)
    /\ Call("search_doc_sets", 1, kw, <<>>) \in BagToSet(calls)

\* C12: run on a well-formed DocSet reference, or on a well-formed item
\* reference whose provider is not registered, returns success and makes no
\* backend call.
C12_NoOpReferences ==
    [][ActivateStep =>
          LET d == FromJsonString(actRef')
          IN  (d.ok /\ (d.data.variant = "DocSet" \/ ~Registered(d.data.provider))) =>
                  /\ actResult' = "ok"
                  /\ actOpen' = "none"
                  /\ calls' = calls]_vars

\* C12 witness: run returned success for an item reference of a provider
\* that is not registered, after a query that had called the backends.
C12_Witness ==
    /\ pc = "activated"
    /\ actRef = UnknownProviderRef
    /\ ParsesOk(actRef)
    /\ ~Registered(FromJsonString(actRef).data.provider)
    /\ actResult = "ok"
    /\ calls # EmptyBag

\* C13: run on a string that does not deserialize to an EntryData returns
\* an error and makes no backend call.
C13_MalformedReferenceIsError ==
    [][ActivateStep =>
          (~ParsesOk(actRef') =>
              /\ actResult' = "err"
              /\ actOpen' = "none"
              /\ calls' = calls)]_vars

\* C13 witness: run returned an error for an Entry object without its
\* doc_set_id and url fields.
C13_Witness ==
    /\ pc = "activated"
    /\ actRef = MissingFieldRef
    /\ ~ParsesOk(actRef)
    /\ actResult = "err"


\* C14: in the list query returns, the entries of one backend stand in the
\* order in which that backend's task produced them, whatever the order in
\* which the tasks completed.
C14_BackendOrderKept ==
    (Dispatched /\ result.kind = "ok") =>
        \A p \in Providers : ContributionOf(p) = ptask[p].out

\* C14 witness: the entries of the second backend stand before the several
\* entries of the first one.
C14_Witness ==
    /\ pc = "returned"
    /\ result.kind = "ok"
    /\ Len(providers) = 2
    /\ Len(ptask[1].out) >= 2
    /\ ptask[2].out # <<>>
    /\ rsSrc[1] = 2
    /\ rsSrc[Len(rsSrc)] = 1

HungSds(p) ==
    /\ sdsResp[p] = "hang"
    /\ Call("search_doc_sets", p, kw, <<>>) \in BagToSet(calls)

HungSearch(p, i) ==
    /\ i \in DOMAIN dtask[p]
    /\ searchResp[p][i] = "hang"
    /\ Call("search", p, dtask[p][i].ds.id, term) \in BagToSet(calls)

SomeHungCall ==
    \/ \E p \in Providers : HungSds(p)
    \/ \E p \in Providers : \E i \in 1..MaxDocSets : HungSearch(p, i)

\* No call of the query panics and no search returns an error.
NoTaskFails ==
    \A p \in Providers :
        /\ sdsResp[p] # "panic"
        /\ \A i \in 1..MaxDocSets : searchResp[p][i] \notin {"err", "panic"}

\* C15 as stated: once a call that never returns was started, the query
\* does not return, whatever the other calls do.
C15_AsStated == SomeHungCall => ~Returned

\* C15 amended: once a call that never returns was started, the query
\* returns only through the failure of another task: its failure result
\* after the JoinError of a per-backend task, or, for a hung search, also
\* after a sibling per-docset task failed, which ends the backend's
\* fan-out. The task of the hung call is then aborted. When no other task
\* fails, the query never returns.
C15_HangUnlessFailure ==
    /\ \A p \in Providers :
          (HungSds(p) /\ Returned) =>
              /\ result.kind = "err"
              /\ ptask[p].st = "aborted"
    /\ \A p \in Providers : \A i \in 1..MaxDocSets :
          HungSearch(p, i) =>
              /\ ptask[p].st = "done" => ptask[p].fan = "err"
              /\ Returned =>
                    /\ dtask[p][i].st = "aborted"
                    /\ result.kind = "err" \/ ptask[p].fan = "err"
    /\ (SomeHungCall /\ NoTaskFails) => ~Returned

\* C15 witness: every other task is done and joined, and the query still
\* waits for the search_doc_sets call that never returns.
C15_Witness ==
    /\ pc = "querying"
    /\ Len(providers) = 2
    /\ pjoined = 1
    /\ pq = <<>>
    /\ \E p \in Providers :
          /\ HungSds(p)
          /\ \A q \in Providers \ {p} : ptask[q].st = "done" /\ ptask[q].out # <<>>

\* The search entries a QueryEntry with this item reference comes from.
SourceEntries(p, d) ==
    {e \in {EntriesOf(p, d.doc_set_id)[j] :
                j \in 1..Len(EntriesOf(p, d.doc_set_id))} : e.id = d.url}

\* C16: the relevance of an item entry is the search entry's relevance r
\* divided by 100, unclamped: 0 for r = 0, 1 for r = 100, more than 1 for
\* r > 100.
C16_RelevanceIsHundredth ==
    (Returned /\ result.kind = "ok") =>
        \A k \in 1..Len(result.entries) :
            result.entries[k].match_type = MATCH_TYPE_EXACT =>
                LET q  == result.entries[k]
                    es == SourceEntries(rsSrc[k], ParsedData(q).data)
                IN  /\ es # {}
                    /\ q.relevance.den > 0
                    /\ \A e \in es :
                          /\ q.relevance.num * 100 = e.relevance * q.relevance.den
                          /\ e.relevance = 0 => q.relevance.num = 0
                          /\ e.relevance = 100 => q.relevance.num = q.relevance.den
                          /\ e.relevance > 100 => q.relevance.num > q.relevance.den

\* C16 witness: a returned list with entries of relevance 0, 100 and more
\* than 100.
C16_Witness ==
    /\ pc = "returned"
    /\ result.kind = "ok"
    /\ \E k \in 1..Len(result.entries) : result.entries[k].relevance.num = 0
    /\ \E k \in 1..Len(result.entries) :
          /\ result.entries[k].match_type = MATCH_TYPE_EXACT
          /\ result.entries[k].relevance.num = result.entries[k].relevance.den
    /\ \E k \in 1..Len(result.entries) :
          result.entries[k].relevance.num > result.entries[k].relevance.den

SdsCalls(p) == CopiesIn(Call("search_doc_sets", p, kw, <<>>), calls)

NoSearchForEmptyTerm ==
    term = <<>> =>
        /\ \A c \in BagToSet(calls) : c.op # "search"
        /\ \A p \in Providers : dtask[p] = <<>>
        /\ spawned <= Len(providers)

\* C17 as stated: with an empty term no search is called and no per-docset
\* task is spawned; a query with a keyword has called search_doc_sets
\* exactly once on each registered backend when it returns.
C17_AsStated ==
    /\ NoSearchForEmptyTerm
    /\ Dispatched => \A p \in Providers : SdsCalls(p) = 1

\* C17 amended: with an empty term no search is called and no per-docset
\* task is spawned; a query with a keyword calls search_doc_sets at most
\* once on each registered backend, with the keyword, and exactly once on
\* each when it returns success. A backend is left uncalled only when query
\* returns the failure of another per-backend task and aborts the backend's
\* task before it started.
C17_SdsAtMostOncePerBackend ==
    /\ NoSearchForEmptyTerm
    /\ \A c \in BagToSet(calls) :
          c.op = "search_doc_sets" =>
              c.a1 = kw /\ c.a2 = <<>> /\ CopiesIn(c, calls) = 1
    /\ Dispatched =>
          \A p \in Providers :
              /\ result.kind = "ok" => SdsCalls(p) = 1
              /\ SdsCalls(p) = 0 => result.kind = "err" /\ ptask[p].st = "aborted"

\* C17 witness: query returned the failure of one backend's task before
\* the other backend's task had called search_doc_sets.
C17_Witness ==
    /\ pc = "returned"
    /\ result.kind = "err"
    /\ \E p \in Providers :
          /\ SdsCalls(p) = 0
          /\ ptask[p].st = "aborted"
          /\ \E q \in Providers \ {p} : SdsCalls(q) = 1 /\ ptask[q].st = "panicked"

\* C18: the outcome of a query is fixed by the responses of the backend
\* calls, under every order in which the tasks run and complete: a failure
\* exactly when some search_doc_sets panics, otherwise the multiset of the
\* entries each backend yields on its own responses.
C18_OutcomeFixedByResponses ==
    Dispatched =>
        /\ result.kind = (IF \E p \in Providers : sdsResp[p] = "panic"
                          THEN "err" ELSE "ok")
        /\ result.kind = "err" => result.entries = <<>>
        /\ result.kind = "ok" =>
              SeqToBag(result.entries)
                  = SeqToBag(Flatten([p \in Providers |-> OwnEntries(p)]))

\* C18 witness: a query returned its entries with the tasks completed
\* against the order of their spawning, backends and docsets alike.
C18_Witness ==
    /\ pc = "returned"
    /\ result.kind = "ok"
    /\ Len(providers) = 2
    /\ rsSrc # <<>>
    /\ rsSrc[1] = 2
    /\ Len(dtask[1]) >= 2
    /\ ptask[1].out # <<>>
    /\ dtask[1][2].out # <<>>
    /\ ptask[1].out[1] = dtask[1][2].out[1]

\* C19: a returned list is of one tier: COMPLETION entries with DocSet
\* references when the term is empty, EXACT entries with item references
\* when it is not.
C19_OneTierPerResult ==
    Returned =>
        \A k \in 1..Len(result.entries) :
            LET q == result.entries[k]
            IN  /\ ParsedData(q).ok
                /\ IF term = <<>>
                   THEN /\ q.match_type = MATCH_TYPE_COMPLETION
                        /\ ParsedData(q).data.variant = "DocSet"
                   ELSE /\ q.match_type = MATCH_TYPE_EXACT
                        /\ ParsedData(q).data.variant = "Entry"

\* C19 witness: a query with an empty term returned the completions of
\* both backends.
C19_Witness ==
    /\ pc = "returned"
    /\ term = <<>>
    /\ Len(providers) = 2
    /\ \A p \in Providers : ContributionOf(p) # <<>>
    /\ \A k \in 1..Len(result.entries) :
          result.entries[k].match_type = MATCH_TYPE_COMPLETION

\* One task per registered backend and one per docset that a
\* search_doc_sets call returns.
MaxTasks ==
    Len(providers)
    + SumLen([p \in Providers |-> IF sdsResp[p] = "ok" THEN DocSetsOf(p) ELSE <<>>])

\* C20: when every backend call returns and scheduling is fair, a query
\* that was dispatched eventually returns, and it never spawns more tasks
\* than one per registered backend plus one per returned docset.
C20_QueryTerminates ==
    /\ [](spawned <= MaxTasks)
    /\ (pc = "querying") ~> Returned

\* C20 witness: a query returned after spawning a task for every backend
\* and every returned docset.
C20_Witness ==
    /\ pc = "returned"
    /\ result.kind = "ok"
    /\ spawned = MaxTasks
    /\ spawned > Len(providers) + 1


====
